---- MODULE Spec2Model ----
(***************************************************************************)
(* Model of two go-critic checkers (src/lint/boolExprSimplify_checker.go): *)
(*   - boolExprSimplifyChecker: the bool expression rewrite engine         *)
(*     (simplifyBool and its three rules), VisitExpr, EnterChilds, warn;   *)
(*   - dupSubExprChecker: the duplicated sub-expression detector           *)
(*     (checkBinaryExpr, resultIsFloat, isSafe).                           *)
(*                                                                         *)
(* An ast node is a record [kind, op, kids]: kind is the go/ast type name, *)
(* op the operator token (the name of an Ident, the value of a BasicLit,   *)
(* the field of a SelectorExpr), kids the sequence of child expressions.   *)
(***************************************************************************)
EXTENDS Integers, Sequences, FiniteSets, TLC

VARIABLES
    expr,      \* the expression handed to VisitExpr / checkBinaryExpr (value specs)
    typ,       \* what ctx.typesInfo.TypeOf answers for expr.X
    y,         \* simplifyBool(astcopy.Expr(expr))
    z,         \* simplifyBool applied to y a second time
    pc,        \* position of the value specs' single caller
    cause,     \* boolExprSimplifyChecker.cause: identity of the last warned node
    warnings,  \* the ctx.Warn calls made so far, in order
    roots,     \* roots[t]: the root expressions traversal t walks, in order
    work,      \* work[t]: identities of the nodes traversal t still has to visit
    cur,       \* cur[t]: identity of the node traversal t visited last
    emitted,   \* emitted[t]: whether that VisitExpr emitted a warning
    entered,   \* entered[t]: what EnterChilds answered for that node
    tpc        \* tpc[t]: "idle" | "visited" (VisitExpr returned, EnterChilds pending)

vars == <<expr, typ, y, z, pc, cause, warnings, roots, work, cur, emitted, entered, tpc>>

(***************************************************************************)
(* Bounds of the model.                                                    *)
(***************************************************************************)
\* wrappers (! and parentheses) put around a base expression
MaxWrap == 3
\* wrappers put around the operands of == and !=
MaxOpWrap == 2
\* nesting depth of the operands handed to the duplicate detector
MaxDupDepth == 2
\* root expressions one traversal walks
MaxRoots == 2

(***************************************************************************)
(* go/ast nodes.                                                           *)
(***************************************************************************)
\* the nil ast.Node / ast.Expr interface value
NilNode == [kind |-> "nil", op |-> "", kids |-> <<>>]

Ident(name) == [kind |-> "Ident", op |-> name, kids |-> <<>>]
BasicLit(v) == [kind |-> "BasicLit", op |-> v, kids |-> <<>>]
UnaryExpr(o, x) == [kind |-> "UnaryExpr", op |-> o, kids |-> <<x>>]
BinaryExpr(o, x, yy) == [kind |-> "BinaryExpr", op |-> o, kids |-> <<x, yy>>]
ParenExpr(x) == [kind |-> "ParenExpr", op |-> "", kids |-> <<x>>]
IndexExpr(x, i) == [kind |-> "IndexExpr", op |-> "", kids |-> <<x, i>>]
SelectorExpr(x, sel) == [kind |-> "SelectorExpr", op |-> sel, kids |-> <<x>>]
CallExpr(f) == [kind |-> "CallExpr", op |-> "", kids |-> <<f>>]

Not(x) == UnaryExpr("!", x)

\* field X of a unary, binary, paren, index or selector node (nil on the sentinels)
FieldX(n) == IF Len(n.kids) >= 1 THEN n.kids[1] ELSE NilNode
\* field Y of a binary node
FieldY(n) == IF Len(n.kids) >= 2 THEN n.kids[2] ELSE NilNode

\* c.nilUnaryExpr = &ast.UnaryExpr{}: no operator, nil operand
nilUnaryExpr == [kind |-> "UnaryExpr", op |-> "ILLEGAL", kids |-> <<>>]
\* c.nilBinaryExpr = &ast.BinaryExpr{}
nilBinaryExpr == [kind |-> "BinaryExpr", op |-> "ILLEGAL", kids |-> <<>>]

\* astutil.Unparen: strips every enclosing parenthesis
RECURSIVE Unparen(_)
Unparen(e) == IF e.kind = "ParenExpr" THEN Unparen(FieldX(e)) ELSE e

\* e with every parenthesis removed
RECURSIVE StripParens(_)
StripParens(e) ==
    LET u == Unparen(e)
    IN  [u EXCEPT !.kids = [i \in 1..Len(u.kids) |-> StripParens(u.kids[i])]]

\* astequal.Expr: same node type, same token / name / value, equal children;
\* a ParenExpr only equals a ParenExpr
RECURSIVE astequalExpr(_, _)
astequalExpr(a, b) ==
    /\ a.kind = b.kind
    /\ a.op = b.op
    /\ Len(a.kids) = Len(b.kids)
    /\ \A i \in 1..Len(a.kids) : astequalExpr(a.kids[i], b.kids[i])

\* astcopy.Expr: a deep copy, node by node
RECURSIVE astcopyExpr(_)
astcopyExpr(e) ==
    [kind |-> e.kind, op |-> e.op,
     kids |-> [i \in 1..Len(e.kids) |-> astcopyExpr(e.kids[i])]]

(***************************************************************************)
(* boolExprSimplifyChecker: the rewrite rules.  Each rule is given the     *)
(* cursor's node (its children already walked) and answers whether it      *)
(* fired and the node that stands in the cursor's place afterwards.        *)
(***************************************************************************)
unaryNot(x) ==
    IF x.kind # "UnaryExpr" \/ x.op # "!" THEN nilUnaryExpr ELSE x

binaryExpr(x) ==
    IF x.kind # "BinaryExpr" THEN nilBinaryExpr ELSE x

doubleNegationKeepsParens(n) ==
    LET neg1 == unaryNot(n)
        neg2 == unaryNot(Unparen(FieldX(neg1)))
    IN  IF neg1 # nilUnaryExpr /\ neg2 # nilUnaryExpr
        THEN [fired |-> TRUE, node |-> FieldX(neg2)]
        ELSE [fired |-> FALSE, node |-> n]

doubleNegation(n) ==
    LET neg1 == unaryNot(n)
        neg2 == unaryNot(Unparen(FieldX(neg1)))
    IN  IF neg1 # nilUnaryExpr /\ neg2 # nilUnaryExpr
        THEN [fired |-> TRUE, node |-> Unparen(FieldX(neg2))]
        ELSE [fired |-> FALSE, node |-> n]

negatedEqualsAnyEquality(n) ==
    IF n.kind # "BinaryExpr" \/ n.op \notin {"==", "!="}
    THEN [fired |-> FALSE, node |-> n]
    ELSE LET neg1 == unaryNot(FieldX(n))
             neg2 == unaryNot(FieldY(n))
         IN  IF neg1 # nilUnaryExpr /\ neg2 # nilUnaryExpr
             THEN [fired |-> TRUE,
                   node |-> [n EXCEPT !.kids = <<FieldX(neg1), FieldX(neg2)>>]]
             ELSE [fired |-> FALSE, node |-> n]

negatedEquals(n) ==
    IF n.kind # "BinaryExpr" \/ n.op # "=="
    THEN [fired |-> FALSE, node |-> n]
    ELSE LET neg1 == unaryNot(FieldX(n))
             neg2 == unaryNot(FieldY(n))
         IN  IF neg1 # nilUnaryExpr /\ neg2 # nilUnaryExpr
             THEN [fired |-> TRUE,
                   node |-> [n EXCEPT !.kids = <<FieldX(neg1), FieldX(neg2)>>]]
             ELSE [fired |-> FALSE, node |-> n]

\* the switch of invertComparison: the negated form of a comparison operator,
\* "" for the default case
InvertedOp(o) ==
    CASE o = "==" -> "!="
      [] o = "!=" -> "=="
      [] o = "<"  -> ">="
      [] o = ">"  -> "<="
      [] o = "<=" -> ">"
      [] o = ">=" -> "<"
      [] OTHER    -> ""

invertComparisonSwapped(n) ==
    LET neg == unaryNot(n)
        cmp == binaryExpr(Unparen(FieldX(neg)))
        swap == CASE cmp.op = "<" -> ">" [] cmp.op = ">" -> "<"
                  [] cmp.op = "<=" -> ">=" [] cmp.op = ">=" -> "<="
                  [] OTHER -> InvertedOp(cmp.op)
    IN  IF neg = nilUnaryExpr \/ cmp = nilBinaryExpr \/ swap = ""
        THEN [fired |-> FALSE, node |-> n]
        ELSE [fired |-> TRUE, node |-> [cmp EXCEPT !.op = swap]]

invertComparison(n) ==
    LET neg == unaryNot(n)
        cmp == binaryExpr(Unparen(FieldX(neg)))
    IN  IF neg = nilUnaryExpr \/ cmp = nilBinaryExpr
        THEN [fired |-> FALSE, node |-> n]
        ELSE IF InvertedOp(cmp.op) = ""
             THEN [fired |-> FALSE, node |-> n]
             ELSE [fired |-> TRUE, node |-> [cmp EXCEPT !.op = InvertedOp(cmp.op)]]

\* the post function simplifyBool hands to astutil.Apply: the first rule that
\* fires, in the order doubleNegation, negatedEquals, invertComparison
PostNoDoubleNegation(n) ==
    IF negatedEquals(n).fired THEN negatedEquals(n).node
    ELSE IF invertComparison(n).fired THEN invertComparison(n).node
    ELSE n

Post(n) ==
    IF doubleNegation(n).fired THEN doubleNegation(n).node
    ELSE IF negatedEquals(n).fired THEN negatedEquals(n).node
    ELSE IF invertComparison(n).fired THEN invertComparison(n).node
    ELSE n

\* astutil.Apply(x, nil, post): the children are walked (and replaced in
\* place) first, then post sees the node; a replacement is not walked again
RECURSIVE Apply(_)
Apply(n) ==
    Post([n EXCEPT !.kids = [i \in 1..Len(n.kids) |-> Apply(n.kids[i])]])

\* the rules applied on the way down instead of on the way up
RECURSIVE ApplyPreOrder(_)
ApplyPreOrder(n) ==
    LET m == Post(n)
    IN  [m EXCEPT !.kids = [i \in 1..Len(m.kids) |-> ApplyPreOrder(m.kids[i])]]

simplifyBoolPreOrder(x) == ApplyPreOrder(x)

simplifyBool(x) == Apply(x)

\* VisitExpr's test: the simplified copy differs from the original
VisitExprWarns(x) == ~astequalExpr(x, simplifyBool(astcopyExpr(x)))

(***************************************************************************)
(* The diagnostic sink and the checker's state.                            *)
(***************************************************************************)
\* the traversals that may share one checker
Trav == {1, 2}

\* no node: the zero value of boolExprSimplifyChecker.cause
NoNode == <<>>

\* the identity of the single expression the value specifications check
ExprId == <<1, 1>>

\* boolExprSimplifyChecker.warn: remembers the cause, then reports it
warn(id, c, suggestion) ==
    /\ cause' = id
    /\ warnings' = Append(warnings,
                          [checker |-> "boolExprSimplify", node |-> id,
                           cause |-> c, suggestion |-> suggestion])

\* boolExprSimplifyChecker.EnterChilds
EnterChildsAlways(id) == TRUE

EnterChilds(id) == cause # id

(***************************************************************************)
(* Inputs of the rewrite engine.                                           *)
(***************************************************************************)
CmpOps == {"==", "!=", "<", ">", "<=", ">="}
OtherOps == {"&&", "||", "+"}

\* S closed under at most n wrappers, each a logical-not or a parenthesis
RECURSIVE Wrap(_, _)
Wrap(S, n) ==
    IF n = 0 THEN S
    ELSE LET W == Wrap(S, n - 1)
         IN  S \cup {Not(t) : t \in W} \cup {ParenExpr(t) : t \in W}

IdA == Ident("a")
IdB == Ident("b")

\* a op b for every operator, on plain operands
SmallBins == {BinaryExpr(o, IdA, IdB) : o \in CmpOps \cup OtherOps}

\* == and != on operands that are wrapped and may hold a comparison
RichBins ==
    {BinaryExpr(o, l, r) :
        o \in {"==", "!="},
        l \in Wrap({IdA, BinaryExpr("<", IdA, IdB)}, MaxOpWrap),
        r \in Wrap({IdB}, MaxOpWrap)}

Exprs == Wrap({IdA} \cup SmallBins \cup RichBins, MaxWrap)

\* every expression, and every expression under a parenthesized double negation
SimplifyInputs == Exprs \cup {Not(ParenExpr(Not(ParenExpr(x)))) : x \in Exprs}

(***************************************************************************)
(* SpecSimplify: VisitExpr on one expression, then simplifyBool once more  *)
(* on its result.                                                          *)
(***************************************************************************)
NoTraversal ==
    /\ roots = [t \in Trav |-> <<>>]
    /\ work = [t \in Trav |-> <<>>]
    /\ cur = [t \in Trav |-> NoNode]
    /\ emitted = [t \in Trav |-> FALSE]
    /\ entered = [t \in Trav |-> FALSE]
    /\ tpc = [t \in Trav |-> "idle"]

InitSimplify ==
    /\ expr \in SimplifyInputs
    /\ typ = "none"
    /\ y = NilNode
    /\ z = NilNode
    /\ pc = "start"
    /\ cause = NoNode
    /\ warnings = <<>>
    /\ NoTraversal

\* boolExprSimplifyChecker.VisitExpr(expr)
VisitExprOne ==
    /\ pc = "start"
    /\ y' = simplifyBool(astcopyExpr(expr))
    /\ IF VisitExprWarns(expr)
       THEN warn(ExprId, expr, simplifyBool(astcopyExpr(expr)))
       ELSE UNCHANGED <<cause, warnings>>
    /\ pc' = "visited"
    /\ UNCHANGED <<expr, typ, z, roots, work, cur, emitted, entered, tpc>>

\* simplifyBool run a second time, on the already simplified result
SimplifyAgain ==
    /\ pc = "visited"
    /\ z' = simplifyBool(y)
    /\ pc' = "done"
    /\ UNCHANGED <<expr, typ, y, cause, warnings, roots, work, cur, emitted, entered, tpc>>

NextSimplify == VisitExprOne \/ SimplifyAgain

SpecSimplify == InitSimplify /\ [][NextSimplify]_vars

(***************************************************************************)
(* dupSubExprChecker.                                                      *)
(***************************************************************************)
\* dupSubExprChecker.Init: the operations that make no sense with the same
\* LHS and RHS, and those among them where float operands need special care
opSet == {"||", "&&", "|", "&", "^", "<", ">", "&^", "%",
          "==", "!=", "<=", ">=", "/", "-"}

floatOpsSet == {"==", "!=", "<=", ">=", "/", "-"}

\* what ctx.typesInfo.TypeOf can answer: nil (no type recorded), a
\* *types.Basic, or another types.Type ("named": a *types.Named)
BasicTypes == {"int", "float64"}
Types == {"nil", "named"} \cup BasicTypes

\* types.Basic.Info()&types.IsFloat != 0
BasicIsFloat(t) == t \in {"float32", "float64", "untyped float"}

\* ctx.typesInfo.TypeOf(e); checkBinaryExpr only asks about the left operand
TypeOf(e) == typ

resultIsFloat(e) ==
    LET t == TypeOf(e) IN t \in BasicTypes /\ BasicIsFloat(t)

isSafeAllowsRecv(e) == e.kind # "CallExpr"

RECURSIVE isSafe(_)
isSafe(e) ==
    CASE e.kind = "BinaryExpr"   -> isSafe(FieldX(e)) /\ isSafe(FieldY(e))
      [] e.kind = "UnaryExpr"    -> e.op # "<-" /\ isSafe(FieldX(e))
      [] e.kind \in {"BasicLit", "Ident"} -> TRUE
      [] e.kind = "IndexExpr"    -> isSafe(e.kids[1]) /\ isSafe(e.kids[2])
      [] e.kind = "SelectorExpr" -> isSafe(FieldX(e))
      [] e.kind = "ParenExpr"    -> isSafe(FieldX(e))
      [] OTHER                   -> FALSE

checkBinaryExprNoFloatCare(e) ==
    e.op \in opSet /\ isSafe(e) /\ astequalExpr(FieldX(e), FieldY(e))

checkBinaryExprParenBlind(e) ==
    IF e.op \notin opSet THEN FALSE
    ELSE IF resultIsFloat(FieldX(e)) /\ e.op \in floatOpsSet THEN FALSE
    ELSE isSafe(e) /\ StripParens(FieldX(e)) = StripParens(FieldY(e))

\* whether checkBinaryExpr(e) reaches c.warn(e)

checkBinaryExprWarns(e) ==
    IF e.op \notin opSet THEN FALSE
    ELSE IF resultIsFloat(FieldX(e)) /\ e.op \in floatOpsSet THEN FALSE
    ELSE isSafe(e) /\ e.op \in opSet /\ astequalExpr(FieldX(e), FieldY(e))

\* dupSubExprChecker.warn
dupWarn(c) ==
    warnings' = Append(warnings,
                       [checker |-> "dupSubExpr", node |-> ExprId,
                        cause |-> c, suggestion |-> NilNode])

(***************************************************************************)
(* Inputs of the duplicate detector.                                       *)
(***************************************************************************)
DupOps == opSet \cup {"+", "*", "<<"}

DupLeaves == {Ident("x"), BasicLit("1")}

\* operands nested at most n deep: parentheses, unary minus, channel
\* receive, selector, index and call around a leaf
RECURSIVE DupExprs(_)
DupExprs(n) ==
    IF n = 0 THEN DupLeaves
    ELSE LET S == DupExprs(n - 1)
         IN  DupLeaves
             \cup {ParenExpr(t) : t \in S}
             \cup {UnaryExpr("-", t) : t \in S}
             \cup {UnaryExpr("<-", t) : t \in S}
             \cup {SelectorExpr(t, "f") : t \in S}
             \cup {IndexExpr(Ident("a"), t) : t \in S}
             \cup {CallExpr(t) : t \in S}

\* right operands tried against a left operand l: l itself, l without its
\* parentheses, l in parentheses, and another identifier
RightOperands(l) == {l, StripParens(l), ParenExpr(l), Ident("y")}

(***************************************************************************)
(* SpecDup: dupSubExprChecker.VisitExpr on one expression.                 *)
(***************************************************************************)
InitDup ==
    /\ \E o \in DupOps, l \in DupExprs(MaxDupDepth) :
          expr \in {BinaryExpr(o, l, r) : r \in RightOperands(l)} \cup {l}
    /\ typ \in Types
    /\ y = NilNode
    /\ z = NilNode
    /\ pc = "start"
    /\ cause = NoNode
    /\ warnings = <<>>
    /\ NoTraversal

\* dupSubExprChecker.VisitExpr(expr)
DupVisitExpr ==
    /\ pc = "start"
    /\ IF expr.kind = "BinaryExpr" /\ checkBinaryExprWarns(expr)
       THEN dupWarn(expr)
       ELSE UNCHANGED warnings
    /\ pc' = "done"
    /\ UNCHANGED <<expr, typ, y, z, cause, roots, work, cur, emitted, entered, tpc>>

NextDup == DupVisitExpr

SpecDup == InitDup /\ [][NextDup]_vars

(***************************************************************************)
(* The driver: it walks each root expression top-down, calls VisitExpr(x)  *)
(* on a node and then descends into x's children only if EnterChilds(x)    *)
(* answers true.  A node's identity is <<traversal, root, path...>>.       *)
(***************************************************************************)
\* the subtree of e the path of child indices leads to
RECURSIVE Sub(_, _)
Sub(e, path) ==
    IF path = <<>> THEN e ELSE Sub(e.kids[Head(path)], Tail(path))

\* the node an identity names
NodeAt(id) == Sub(roots[id[1]][id[2]], Tail(Tail(id)))

\* the identities of the children of the node id names, left to right
ChildIds(id) == [i \in 1..Len(NodeAt(id).kids) |-> Append(id, i)]

\* the expressions a walked function body is made of
WalkExprs ==
    { IdA,
      BinaryExpr("&&", IdA, IdB),
      Not(ParenExpr(BinaryExpr("<", IdA, IdB))),
      BinaryExpr("&&", Not(Not(IdA)), IdB),
      BinaryExpr("==", Not(IdA), Not(IdB)) }

\* the sequences of 1..MaxRoots root expressions
Forests == UNION {[1..n -> WalkExprs] : n \in 1..MaxRoots}

RootIds(t, forest) == [r \in 1..Len(forest) |-> <<t, r>>]

InitChecker ==
    /\ expr = NilNode
    /\ typ = "none"
    /\ y = NilNode
    /\ z = NilNode
    /\ pc = "walk"
    /\ cause = NoNode
    /\ warnings = <<>>
    /\ cur = [t \in Trav |-> NoNode]
    /\ emitted = [t \in Trav |-> FALSE]
    /\ entered = [t \in Trav |-> FALSE]
    /\ tpc = [t \in Trav |-> "idle"]

\* one traversal (traversal 1) on the checker
InitWalk ==
    /\ InitChecker
    /\ \E f \in Forests : roots = [t \in Trav |-> IF t = 1 THEN f ELSE <<>>]
    /\ work = [t \in Trav |-> RootIds(t, roots[t])]

\* two traversals, over disjoint trees, on the same checker
InitInterleaved ==
    /\ InitChecker
    /\ \E f \in Forests, g \in Forests : roots = [t \in Trav |-> IF t = 1 THEN f ELSE g]
    /\ work = [t \in Trav |-> RootIds(t, roots[t])]

\* the driver takes its next node x and calls boolExprSimplifyChecker.VisitExpr(x)
VisitExpr(t) ==
    /\ pc = "walk"
    /\ tpc[t] = "idle"
    /\ work[t] # <<>>
    /\ LET id == Head(work[t])
           x == NodeAt(id)
       IN  /\ cur' = [cur EXCEPT ![t] = id]
           /\ work' = [work EXCEPT ![t] = Tail(work[t])]
           /\ emitted' = [emitted EXCEPT ![t] = VisitExprWarns(x)]
           /\ IF VisitExprWarns(x)
              THEN warn(id, x, simplifyBool(astcopyExpr(x)))
              ELSE UNCHANGED <<cause, warnings>>
    /\ tpc' = [tpc EXCEPT ![t] = "visited"]
    /\ UNCHANGED <<expr, typ, y, z, pc, roots, entered>>

\* the driver asks EnterChilds(x) about the node it has just visited and
\* descends into its children on true
Descend(t) ==
    /\ pc = "walk"
    /\ tpc[t] = "visited"
    /\ entered' = [entered EXCEPT ![t] = EnterChilds(cur[t])]
    /\ work' = [work EXCEPT ![t] = IF EnterChilds(cur[t])
                                   THEN ChildIds(cur[t]) \o work[t]
                                   ELSE work[t]]
    /\ tpc' = [tpc EXCEPT ![t] = "idle"]
    /\ UNCHANGED <<expr, typ, y, z, pc, cause, warnings, roots, cur, emitted>>

NextWalk == \E t \in Trav : VisitExpr(t) \/ Descend(t)

SpecWalk == InitWalk /\ [][NextWalk]_vars

SpecInterleaved == InitInterleaved /\ [][NextWalk]_vars

(***************************************************************************)
(* Vocabulary of the properties: the rule shapes, stated on the syntax.    *)
(***************************************************************************)
IsNot(e) == e.kind = "UnaryExpr" /\ e.op = "!"

\* !(!(x)), parentheses around the inner negation being transparent
DoubleNegationShape(e) == IsNot(e) /\ IsNot(Unparen(e.kids[1]))

\* !a == !b, the negations being the operands themselves
NegatedEqualsShape(e) ==
    e.kind = "BinaryExpr" /\ e.op = "==" /\ IsNot(e.kids[1]) /\ IsNot(e.kids[2])

\* !(a op b) for a comparison op, parentheses being transparent
InvertComparisonShape(e) ==
    /\ IsNot(e)
    /\ Unparen(e.kids[1]).kind = "BinaryExpr"
    /\ Unparen(e.kids[1]).op \in {"==", "!=", "<", ">", "<=", ">="}

RuleShape(e) ==
    DoubleNegationShape(e) \/ NegatedEqualsShape(e) \/ InvertComparisonShape(e)

\* some node of t has a rule shape
RECURSIVE ContainsRuleShape(_)
ContainsRuleShape(t) ==
    RuleShape(t) \/ \E i \in 1..Len(t.kids) : ContainsRuleShape(t.kids[i])

\* some node of t has the negated-equals shape
RECURSIVE ContainsNegatedEquals(_)
ContainsNegatedEquals(t) ==
    NegatedEqualsShape(t) \/ \E i \in 1..Len(t.kids) : ContainsNegatedEquals(t.kids[i])

\* the inverse of a comparison operator, as the documentation tabulates it
InverseOf(o) ==
    CASE o = "==" -> "!=" [] o = "!=" -> "=="
      [] o = "<" -> ">="  [] o = ">" -> "<="
      [] o = "<=" -> ">"  [] o = ">=" -> "<"

\* expr is a logical-not of a binary node under any number of parentheses
NegatedBinary(e) == IsNot(e) /\ Unparen(e.kids[1]).kind = "BinaryExpr"
InnerBinary(e) == Unparen(e.kids[1])

Visited == pc \in {"visited", "done"}

(***************************************************************************)
(* C1                                                                      *)
(***************************************************************************)
\* C1 as stated: for !(a op b) under any number of parentheses, with a and b
\* holding no rule shape, the result is a inv(op) b for a comparison op and
\* the unchanged expression for any other op.
C1_InvertComparison_Original ==
    (/\ Visited
     /\ NegatedBinary(expr)
     /\ ~ContainsRuleShape(InnerBinary(expr).kids[1])
     /\ ~ContainsRuleShape(InnerBinary(expr).kids[2]))
    => IF InnerBinary(expr).op \in CmpOps
       THEN y = BinaryExpr(InverseOf(InnerBinary(expr).op),
                           InnerBinary(expr).kids[1], InnerBinary(expr).kids[2])
       ELSE y = expr

\* C1 amended: the same, provided a op b is not itself the negated-equals
\* shape !p == !q; that node is rewritten first, and the result is p != q.
C1_InvertComparison ==
    (/\ Visited
     /\ NegatedBinary(expr)
     /\ ~ContainsRuleShape(InnerBinary(expr).kids[1])
     /\ ~ContainsRuleShape(InnerBinary(expr).kids[2]))
    => IF NegatedEqualsShape(InnerBinary(expr))
       THEN y = BinaryExpr("!=", InnerBinary(expr).kids[1].kids[1],
                                 InnerBinary(expr).kids[2].kids[1])
       ELSE IF InnerBinary(expr).op \in CmpOps
       THEN y = BinaryExpr(InverseOf(InnerBinary(expr).op),
                           InnerBinary(expr).kids[1], InnerBinary(expr).kids[2])
       ELSE y = expr

\* !((a < b)) has been simplified to a >= b
C1_Witness ==
    /\ Visited
    /\ expr = Not(ParenExpr(ParenExpr(BinaryExpr("<", IdA, IdB))))
    /\ y = BinaryExpr(">=", IdA, IdB)

(***************************************************************************)
(* C2                                                                      *)
(***************************************************************************)
\* expr is !(!(x))
IsDoubleNegated(e) ==
    /\ IsNot(e)
    /\ e.kids[1].kind = "ParenExpr"
    /\ IsNot(e.kids[1].kids[1])
    /\ e.kids[1].kids[1].kids[1].kind = "ParenExpr"
DoubleNegated(e) == e.kids[1].kids[1].kids[1].kids[1]

\* C2 as stated: simplifyBool(!(!(x))) is strictly equal to x, for any x
\* (read here on the x that hold no rule shape, where it already fails).
C2_DoubleNegation_Original ==
    (/\ Visited
     /\ IsDoubleNegated(expr)
     /\ ~ContainsRuleShape(DoubleNegated(expr))) => y = DoubleNegated(expr)

\* C2 amended: simplifyBool(!(!(x))) equals simplifyBool(x) up to
\* parentheses; it is strictly equal to x when x holds no rule shape and is
\* neither a parenthesized expression nor a logical-not.
C2_DoubleNegation ==
    (Visited /\ IsDoubleNegated(expr)) =>
        /\ StripParens(y) = StripParens(simplifyBool(DoubleNegated(expr)))
        /\ (/\ ~ContainsRuleShape(DoubleNegated(expr))
            /\ DoubleNegated(expr).kind # "ParenExpr"
            /\ ~IsNot(DoubleNegated(expr)))
           => y = DoubleNegated(expr)

\* !(!(a && b)) has been simplified to a && b
C2_Witness ==
    /\ Visited
    /\ expr = Not(ParenExpr(Not(ParenExpr(BinaryExpr("&&", IdA, IdB)))))
    /\ y = BinaryExpr("&&", IdA, IdB)

(***************************************************************************)
(* C3                                                                      *)
(***************************************************************************)
\* both operands of the binary node e are, under any parentheses, logical-nots
NegatedOperands(e) ==
    e.kind = "BinaryExpr" /\ IsNot(Unparen(e.kids[1])) /\ IsNot(Unparen(e.kids[2]))

\* C3 as stated: a == whose operands are, after unwrapping parentheses,
\* logical-nots !a and !b becomes a == b; such a != is unchanged (read here
\* on operands that hold no rule shape, where it already fails).
C3_NegatedEquals_Original ==
    (/\ Visited
     /\ NegatedOperands(expr)
     /\ ~ContainsRuleShape(expr.kids[1])
     /\ ~ContainsRuleShape(expr.kids[2])) =>
        /\ expr.op = "==" =>
              y = BinaryExpr("==", Unparen(expr.kids[1]).kids[1],
                                   Unparen(expr.kids[2]).kids[1])
        /\ expr.op = "!=" => y = expr

\* C3 amended: a == whose operands are directly the logical-nots !a and !b
\* (no parentheses around a negation), !a and !b holding no rule shape,
\* becomes a == b; with a negation in parentheses, as in (!a) == (!b), the
\* node is unchanged; such a != is unchanged.
C3_NegatedEquals ==
    (/\ Visited
     /\ NegatedOperands(expr)
     /\ ~ContainsRuleShape(expr.kids[1])
     /\ ~ContainsRuleShape(expr.kids[2])) =>
        /\ (expr.op = "==" /\ IsNot(expr.kids[1]) /\ IsNot(expr.kids[2])) =>
              y = BinaryExpr("==", expr.kids[1].kids[1], expr.kids[2].kids[1])
        /\ (expr.op = "==" /\ ~(IsNot(expr.kids[1]) /\ IsNot(expr.kids[2]))) =>
              y = expr
        /\ expr.op = "!=" => y = expr

\* !(a) == !(b) has been simplified to (a) == (b)
C3_Witness ==
    /\ Visited
    /\ expr = BinaryExpr("==", Not(ParenExpr(IdA)), Not(ParenExpr(IdB)))
    /\ y = BinaryExpr("==", ParenExpr(IdA), ParenExpr(IdB))

(***************************************************************************)
(* C4                                                                      *)
(***************************************************************************)
\* C4 as stated: a second simplifyBool changes nothing.
C4_FixedPoint_Original == pc = "done" => z = y

\* C4 amended: a second simplifyBool changes nothing exactly when the first
\* result holds no negated-equals shape !a == !b (invertComparison leaves
\* one behind when it turns !(!a != !b) into !a == !b); the second result
\* is a fixed point in every case.
C4_FixedPoint ==
    pc = "done" =>
        /\ z = y <=> ~ContainsNegatedEquals(y)
        /\ simplifyBool(z) = z
        /\ ~ContainsRuleShape(z)

\* !(!(a < b)) went to a < b, and the second run left it alone
C4_Witness ==
    /\ pc = "done"
    /\ expr = Not(ParenExpr(Not(ParenExpr(BinaryExpr("<", IdA, IdB)))))
    /\ y = BinaryExpr("<", IdA, IdB)
    /\ z = y

(***************************************************************************)
(* C9                                                                      *)
(***************************************************************************)
\* C9: simplifyBool(t) is strictly equal to t if and only if no node of t
\* has a rule shape, and VisitExpr(t) warns exactly when one has.
C9_UnchangedIffNoShape ==
    Visited =>
        /\ astequalExpr(expr, y) <=> ~ContainsRuleShape(expr)
        /\ y = expr <=> ~ContainsRuleShape(expr)
        /\ Len(warnings) = (IF ContainsRuleShape(expr) THEN 1 ELSE 0)

\* a tree in which two rules fired, and a warning was emitted for it
C9_Witness ==
    /\ Visited
    /\ expr = Not(ParenExpr(Not(ParenExpr(BinaryExpr("<", IdA, IdB)))))
    /\ Len(warnings) = 1
    /\ warnings[1].suggestion = BinaryExpr("<", IdA, IdB)

(***************************************************************************)
(* Vocabulary of the duplicate detector's properties.                      *)
(***************************************************************************)
\* every node of e is a literal, identifier, binary, unary other than a
\* channel receive, index, selector or parenthesized expression
RECURSIVE Whitelisted(_)
Whitelisted(e) ==
    /\ e.kind \in {"BasicLit", "Ident", "BinaryExpr", "UnaryExpr",
                   "IndexExpr", "SelectorExpr", "ParenExpr"}
    /\ ~(e.kind = "UnaryExpr" /\ e.op = "<-")
    /\ \A i \in 1..Len(e.kids) : Whitelisted(e.kids[i])

AlwaysFlagged == {"||", "&&", "|", "&", "^", "<", ">", "&^", "%"}
FlaggedUnlessFloat == {"==", "!=", "<=", ">=", "/", "-"}

\* the static type is a floating-point type
FloatType(t) == t \in {"float32", "float64"}

Checked == pc = "done" /\ expr.kind = "BinaryExpr"
Flagged == Len(warnings) = 1 /\ warnings[1].checker = "dupSubExpr"
NotFlagged == warnings = <<>>

Candidate ==
    /\ Checked
    /\ expr.op \in AlwaysFlagged \cup FlaggedUnlessFloat
    /\ ~(expr.op \in FlaggedUnlessFloat /\ FloatType(typ))
    /\ Whitelisted(expr.kids[1])
    /\ Whitelisted(expr.kids[2])

C7_UnsafeNeverFlagged ==
    Checked =>
        /\ Flagged => Whitelisted(expr.kids[1]) /\ Whitelisted(expr.kids[2])
        /\ (expr.kids[1] = expr.kids[2] /\ ~Whitelisted(expr.kids[1])) => NotFlagged
        /\ (Candidate /\ expr.kids[1] = expr.kids[2]) => Flagged

\* a[x].f < a[x].f has been flagged
C7_Witness ==
    /\ Checked
    /\ expr = BinaryExpr("<", SelectorExpr(IndexExpr(Ident("a"), Ident("x")), "f"),
                              SelectorExpr(IndexExpr(Ident("a"), Ident("x")), "f"))
    /\ Flagged

(***************************************************************************)
(* C8                                                                      *)
(***************************************************************************)
\* a is a proper prefix of b: b names a proper descendant of the node a names
ProperAncestor(a, b) == Len(a) < Len(b) /\ SubSeq(b, 1, Len(a)) = a

\* the driver has asked EnterChilds about the node traversal t visited last
Asked(t) == tpc[t] = "idle" /\ cur[t] # NoNode

\* C8: EnterChilds(x) answers false right after a VisitExpr(x) that warned
\* and true right after one that did not, whatever was visited and warned
\* before; no warning is emitted for a proper descendant of a warned node.
C8_NoOverlappingWarnings ==
    /\ \A t \in Trav : Asked(t) => (entered[t] <=> ~emitted[t])
    /\ \A i, j \in 1..Len(warnings) :
          ~ProperAncestor(warnings[i].node, warnings[j].node)

\* the second root was warned about after the first, and not descended into
C8_Witness ==
    /\ Asked(1)
    /\ Len(warnings) = 2
    /\ cur[1] = <<1, 2>>
    /\ emitted[1]
    /\ ~entered[1]
    /\ Len(NodeAt(cur[1]).kids) > 0

(***************************************************************************)
(* C10                                                                     *)
(***************************************************************************)
\* C10: with two traversals interleaved on one checker, each traversal still
\* refuses to descend into the node it has just warned about.
C10_SuppressionPerTraversal ==
    \A t \in Trav : (Asked(t) /\ emitted[t]) => ~entered[t]

====
